---- MODULE Spec2Model ----
(***************************************************************************)
(* Model of Re'Archive (src/main.py): the wx.TreeCtrl based file tree      *)
(* (TreeFileList) and the background listing / extraction tasks of         *)
(* ReArchiveApp.                                                           *)
(*                                                                         *)
(* Strings that the code splits (archive-relative paths) are sequences of  *)
(* one-character strings, so that Path(...).parts is computed.  A tree     *)
(* item id is a natural number: the root is 0, the n-th item appended      *)
(* since the last AddRoot is n, and the invalid wx.TreeItemId is -1.       *)
(***************************************************************************)
EXTENDS Integers, Sequences, FiniteSets, TLC

VARIABLES
    files_arg,        \* SpecTree: the entry list handed to populate_tree
    pcT,              \* SpecTree: "init", "built", "resolved"
    selections,       \* SpecTree: what GetSelections() returned
    selected_files,   \* SpecTree: what get_selected_files() returned
    items,            \* TreeFileList: the items below the root, in creation order
    file_paths,       \* TreeFileList.file_paths: item id -> archive path
    current_archive,  \* ReArchiveApp.current_archive, <<>> for None
    thread_semaphore, \* free slots of ReArchiveApp.thread_semaphore
    tasks,            \* the background threads started so far, in start order
    progress_dialog,  \* the wx.ProgressDialog of each task, "none" for a listing
    call_queue,       \* callbacks queued by wx.CallAfter, oldest first
    ui_message        \* the message box the last command handler showed, "" if none

treeOnly == <<files_arg, pcT, selections, selected_files>>
appOnly == <<current_archive, thread_semaphore, tasks, progress_dialog,
             call_queue, ui_message>>
vars == <<files_arg, pcT, selections, selected_files, items, file_paths,
          current_archive, thread_semaphore, tasks, progress_dialog,
          call_queue, ui_message>>

-----------------------------------------------------------------------------
(* Bounds *)
MaxEntries == 3       \* longest entry list handed to populate_tree
MaxSel == 2           \* most items selected at once
MaxTasks == 3         \* most background threads started in one run
MaxPicked == 1        \* most items selected when Extract Selected is pressed
MaxTargets == 2       \* longest files_to_extract handed to extract_files directly

-----------------------------------------------------------------------------
(* Program constants *)
SemaphoreSlots == 2   \* threading.Semaphore(2)

-----------------------------------------------------------------------------
(* Archive-relative paths and entries *)
Sep == "/"

P_e   == <<"e">>
P_a   == <<"a">>
P_ad  == <<"a", "/", "d">>
P_ab  == <<"a", "/", "b">>
P_abc == <<"a", "/", "b", "/", "c">>

PathPool == {P_e, P_a, P_ad, P_ab, P_abc}
AttrPool == {<<"10", "t1">>, <<"20", "t2">>}

\* an entry is the tuple (file_path, size, date) of main.py:197/201/205
EntryPool == {<<p, at[1], at[2]>> : p \in PathPool, at \in AttrPool}

Range(s) == {s[i] : i \in 1..Len(s)}

RECURSIVE SeqsUpTo(_, _)
SeqsUpTo(S, n) ==
    IF n = 0 THEN {<<>>}
    ELSE LET shorter == SeqsUpTo(S, n - 1)
         IN  shorter \cup {Append(s, x) : s \in {t \in shorter : Len(t) = n - 1}, x \in S}

EntryLists == SeqsUpTo(EntryPool, MaxEntries)

\* Path(file_path).parts for a relative POSIX path: split at the separator,
\* empty segments (doubled or trailing separators) are dropped
RECURSIVE PartsFrom(_, _, _)
PartsFrom(p, i, cur) ==
    IF i > Len(p)
    THEN IF cur = <<>> THEN <<>> ELSE <<cur>>
    ELSE IF p[i] = Sep
         THEN IF cur = <<>> THEN PartsFrom(p, i + 1, <<>>)
                            ELSE <<cur>> \o PartsFrom(p, i + 1, <<>>)
         ELSE PartsFrom(p, i + 1, Append(cur, p[i]))

Parts(p) == PartsFrom(p, 1, <<>>)

-----------------------------------------------------------------------------
(* wx.TreeCtrl *)
Root == 0
InvalidItem == -1

FolderData == [type |-> "folder", size |-> "", date |-> ""]
FileData(size, date) == [type |-> "file", size |-> size, date |-> date]

IsOk(its, item) == item = Root \/ item \in 1..Len(its)

\* AppendItem(parent, text, data): the new item is the last child of parent
AppendItem(its, parent, text, data) ==
    Append(its, [parent |-> parent, text |-> text, data |-> data])

ChildSet(its, item) == {i \in 1..Len(its) : its[i].parent = item}

\* GetFirstChild(item)[0]: the oldest child, or the invalid item
GetFirstChild(its, item) ==
    IF ChildSet(its, item) = {} THEN InvalidItem
    ELSE CHOOSE i \in ChildSet(its, item) : \A j \in ChildSet(its, item) : i <= j

\* GetNextChild(item, cookie)[0]: the child after child c, or the invalid item
GetNextChild(its, item, c) ==
    LET later == {i \in ChildSet(its, item) : i > c}
    IN  IF later = {} THEN InvalidItem
        ELSE CHOOSE i \in later : \A j \in later : i <= j

-----------------------------------------------------------------------------
(* TreeFileList.populate_tree                                              *)
(*                                                                         *)
(* paths_dict, a dict of dicts keyed by path part, is the set of its key   *)
(* chains; current_dict is the key chain that leads to it.  A wx call on   *)
(* the invalid item fails wxPython's assertion (raised as an exception,    *)
(* the default assert mode of wx.App) and populate_tree is left there.     *)
(***************************************************************************)
EmptyMap == [i \in {} |-> <<>>]

\* one round of the inner loop, main.py:53-60; j = i + 1
FolderStep(st, parts, j) ==
    LET part == parts[j]
        key == Append(st.current_dict, part)
        isNew == key \notin st.paths_dict
        failAppend == isNew /\ st.current_item = InvalidItem
        its1 == IF isNew /\ ~failAppend
                THEN AppendItem(st.items, st.current_item, part, FolderData)
                ELSE st.items
        cur1 == IF isNew /\ ~failAppend THEN Len(its1) ELSE st.current_item
        descend == j < Len(parts) - 1
        failFirst == ~failAppend /\ descend /\ cur1 = InvalidItem
        cur2 == IF descend /\ ~failAppend /\ ~failFirst
                THEN GetFirstChild(its1, cur1) ELSE cur1
    IN  IF st.raised THEN st
        ELSE [st EXCEPT !.paths_dict = IF isNew THEN @ \cup {key} ELSE @,
                        !.items = its1,
                        !.current_dict = IF failAppend THEN @ ELSE key,
                        !.current_item = cur2,
                        !.raised = failAppend \/ failFirst]

RECURSIVE FolderLoop(_, _, _)
FolderLoop(st, parts, j) ==
    IF j > Len(parts) - 1 THEN st
    ELSE FolderLoop(FolderStep(st, parts, j), parts, j + 1)

\* one round of the outer loop, main.py:48-68
EntryStep(st, entry) ==
    LET file_path == entry[1]
        path_parts == Parts(file_path)
        s0 == [st EXCEPT !.current_dict = <<>>, !.current_item = Root]
        s1 == FolderLoop(s0, path_parts, 1)
        file_item == Len(s1.items) + 1
    IN  IF st.raised THEN st
        ELSE IF s1.raised THEN s1
        ELSE IF s1.current_item = InvalidItem THEN [s1 EXCEPT !.raised = TRUE]
        ELSE [s1 EXCEPT
                !.items = AppendItem(@, s1.current_item, path_parts[Len(path_parts)],
                                     FileData(entry[2], entry[3])),
                !.file_paths = @ @@ (file_item :> file_path)]

RECURSIVE EntryLoop(_, _, _)
EntryLoop(st, files, k) ==
    IF k > Len(files) THEN st
    ELSE EntryLoop(EntryStep(st, files[k]), files, k + 1)

\* populate_tree without DeleteAllItems and file_paths.clear(): the entries are
\* added to the tree that is there
populate_tree_keeping(files) ==
    EntryLoop([items |-> items, file_paths |-> file_paths, paths_dict |-> {},
               current_dict |-> <<>>, current_item |-> Root, raised |-> FALSE],
              files, 1)

\* main.py:42-68; the result carries the new items and file_paths
populate_tree(files) ==
    EntryLoop([items |-> <<>>, file_paths |-> EmptyMap, paths_dict |-> {},
               current_dict |-> <<>>, current_item |-> Root, raised |-> FALSE],
              files, 1)

-----------------------------------------------------------------------------
(* TreeFileList.get_selected_files / _add_files_under_folder *)

RECURSIVE add_files_under_folder(_, _, _, _)
RECURSIVE ChildLoop(_, _, _, _, _)
\* the while loop of main.py:88-93, at child
ChildLoop(its, fp, folder_item, child, file_list) ==
    IF ~IsOk(its, child) THEN file_list
    ELSE LET fl == IF child \in DOMAIN fp
                   THEN Append(file_list, fp[child])
                   ELSE add_files_under_folder(its, fp, child, file_list)
         IN  ChildLoop(its, fp, folder_item, GetNextChild(its, folder_item, child), fl)

add_files_under_folder(its, fp, folder_item, file_list) ==
    ChildLoop(its, fp, folder_item, GetFirstChild(its, folder_item), file_list)

RECURSIVE SelectionLoop(_, _, _, _, _)
SelectionLoop(its, fp, sel, k, selected) ==
    IF k > Len(sel) THEN selected
    ELSE LET item == sel[k]
             nxt == IF item \in DOMAIN fp
                    THEN Append(selected, fp[item])
                    ELSE add_files_under_folder(its, fp, item, selected)
         IN  SelectionLoop(its, fp, sel, k + 1, nxt)

\* main.py:70-83, sel being what GetSelections() returns
get_selected_files(its, fp, sel) == SelectionLoop(its, fp, sel, 1, <<>>)

\* the selections a user can make: distinct items of the tree, in any order
NoRepeat(s) == \A i, j \in 1..Len(s) : i # j => s[i] # s[j]
\* (the root is hidden by wx.TR_HIDE_ROOT, main.py:37, and cannot be picked)
SelectionsOf(its) == {s \in SeqsUpTo(1..Len(its), MaxSel) : NoRepeat(s)}

-----------------------------------------------------------------------------
(* The tree on its own: build from any entry list, then resolve a selection *)

InitTree ==
    /\ files_arg \in EntryLists
    /\ pcT = "init"
    /\ selections = <<>>
    /\ selected_files = <<>>
    /\ items = <<>>
    /\ file_paths = EmptyMap
    /\ current_archive = <<>>
    /\ thread_semaphore = SemaphoreSlots
    /\ tasks = <<>>
    /\ progress_dialog = <<>>
    /\ call_queue = <<>>
    /\ ui_message = ""

TreePopulate ==
    /\ pcT = "init"
    /\ LET r == populate_tree(files_arg)
       IN  /\ items' = r.items
           /\ file_paths' = r.file_paths
    /\ pcT' = "built"
    /\ UNCHANGED <<files_arg, selections, selected_files>>
    /\ UNCHANGED appOnly

TreeResolve ==
    /\ pcT = "built"
    /\ \E sel \in SelectionsOf(items) :
          /\ selections' = sel
          /\ selected_files' = get_selected_files(items, file_paths, sel)
    /\ pcT' = "resolved"
    /\ UNCHANGED <<files_arg, items, file_paths>>
    /\ UNCHANGED appOnly

\* the whole tree resolved from its root, main.py:85-93 on self.root
TreeResolveRoot ==
    /\ pcT = "built"
    /\ selections' = <<Root>>
    /\ selected_files' = get_selected_files(items, file_paths, <<Root>>)
    /\ pcT' = "resolved"
    /\ UNCHANGED <<files_arg, items, file_paths>>
    /\ UNCHANGED appOnly

NextTree == TreePopulate \/ TreeResolve \/ TreeResolveRoot

SpecTree == InitTree /\ [][NextTree]_vars

-----------------------------------------------------------------------------
(* ReArchiveApp: archives and the Archive Reader                           *)
(*                                                                         *)
(* An archive path is a string, as a sequence of characters; None and the  *)
(* empty string are <<>> (both are falsy at main.py:238 and :274).         *)
(***************************************************************************)
NoArchive == <<>>
ArchA == <<"A", ".", "z", "i", "p">>
ArchB == <<"B", ".", "7", "z">>
ArchC == <<"C", ".", "t", "a", "r">>
Archives == {ArchA, ArchB, ArchC}

Ext7z == <<".", "7", "z">>
ExtZip == <<".", "z", "i", "p">>
ExtRar == <<".", "r", "a", "r">>

\* str.endswith
EndsWith(str, suffix) ==
    /\ Len(str) >= Len(suffix)
    /\ SubSeq(str, Len(str) - Len(suffix) + 1, Len(str)) = suffix

\* a branch of the if/elif chains of main.py:194-205 and :212-231 is taken
HasReader(path) ==
    EndsWith(path, Ext7z) \/ EndsWith(path, ExtZip) \/ EndsWith(path, ExtRar)

\* what the Archive Reader enumerates for each archive
Contents(path) ==
    IF path = ArchA THEN <<<<P_ad, "10", "t1">>, <<P_e, "20", "t2">>>>
    ELSE IF path = ArchB THEN <<<<P_ab, "20", "t2">>>>
    ELSE <<>>

\* files_to_extract: None, or a list of paths
NoneTargets == [none |-> TRUE, paths |-> <<>>]
ListTargets(paths) == [none |-> FALSE, paths |-> paths]
\* Python truth value of files_to_extract, main.py:214/220/227
Truthy(targets) == ~targets.none /\ Len(targets.paths) > 0

NewTask(kind, path, targets) ==
    [kind |-> kind,              \* "list" or "extract"
     pc |-> "start",
     archive_path |-> path,      \* the archive the task opens
     files_to_extract |-> targets,
     files |-> <<>>,             \* extract_archive_contents: the list built so far
     idx |-> 1,                  \* the loop position
     handle |-> "none",          \* the reader handle: none, open, closed
     opens |-> 0,                \* how often the task opened the reader
     failed |-> FALSE,           \* the reader raised
     success |-> FALSE,          \* what extract_files returned
     extracted |-> {},           \* the paths the reader was asked to extract
     extract_all |-> FALSE,      \* extractall was called
     errors |-> 0,               \* error message boxes shown for the task
     successes |-> 0]            \* success message boxes shown for the task

TaskIds == 1..Len(tasks)

\* the task is inside a call of the Archive Reader
InReader(t) == tasks[t].pc \in {"open", "enum", "extract"} /\ HasReader(tasks[t].archive_path)

\* wx.PD_APP_MODAL: while a progress dialog is shown the frame takes no input
UiEnabled == \A t \in TaskIds : progress_dialog[t].state # "shown"

\* wx.ProgressDialog(..., maximum=100, style=wx.PD_APP_MODAL | wx.PD_AUTO_HIDE)
NoDialog == [state |-> "none", value |-> 0]
NewDialog == [state |-> "shown", value |-> 0]
\* Update(100): the maximum is reached and wx.PD_AUTO_HIDE hides the dialog
Update(dlg, value) ==
    [dlg EXCEPT !.value = value,
                !.state = IF @ = "shown" /\ value >= 100 THEN "hidden" ELSE @]
Destroy(dlg) == [dlg EXCEPT !.state = "destroyed"]

Callback(fn, t, files) == [fn |-> fn, task |-> t, files |-> files]

Init ==
    /\ files_arg = <<>>
    /\ pcT = "app"
    /\ selections = <<>>
    /\ selected_files = <<>>
    /\ items = <<>>
    /\ file_paths = EmptyMap
    /\ current_archive = NoArchive
    /\ thread_semaphore = SemaphoreSlots
    /\ tasks = <<>>
    /\ progress_dialog = <<>>
    /\ call_queue = <<>>
    /\ ui_message = ""

-----------------------------------------------------------------------------
(* UI thread: the command handlers *)

\* on_open_archive / on_select_archive -> load_archive -> populate_file_list,
\* main.py:166-189: the session is switched and a listing thread is started
load_archive ==
    /\ UiEnabled
    /\ Len(tasks) < MaxTasks
    /\ \E archive_path \in Archives :
          /\ current_archive' = archive_path
          /\ tasks' = Append(tasks, NewTask("list", archive_path, NoneTargets))
    /\ progress_dialog' = Append(progress_dialog, NoDialog)
    /\ ui_message' = ""
    /\ UNCHANGED <<items, file_paths, thread_semaphore, call_queue>>
    /\ UNCHANGED treeOnly

\* on_extract_archive and on_extract_selected without an archive,
\* main.py:238-240 and :274-276
extract_no_archive ==
    /\ UiEnabled
    /\ current_archive = NoArchive
    /\ ui_message' = "No Archive"
    /\ UNCHANGED <<items, file_paths, current_archive, thread_semaphore, tasks,
                   progress_dialog, call_queue>>
    /\ UNCHANGED treeOnly

\* on_extract_archive, main.py:237-271, the directory dialog not cancelled
on_extract_archive ==
    /\ UiEnabled
    /\ current_archive # NoArchive
    /\ Len(tasks) < MaxTasks
    /\ tasks' = Append(tasks, NewTask("extract", NoArchive, NoneTargets))
    /\ progress_dialog' = Append(progress_dialog, NewDialog)
    /\ ui_message' = ""
    /\ UNCHANGED <<items, file_paths, current_archive, thread_semaphore, call_queue>>
    /\ UNCHANGED treeOnly

\* on_extract_selected with the test "if not selected_files" left out
on_extract_selected_unchecked ==
    /\ UiEnabled
    /\ current_archive # NoArchive
    /\ \E sel \in {s \in SelectionsOf(items) : Len(s) <= MaxPicked} :
          LET chosen == get_selected_files(items, file_paths, sel)
          IN  /\ Len(tasks) < MaxTasks
              /\ tasks' = Append(tasks, NewTask("extract", NoArchive,
                                                ListTargets(chosen)))
              /\ progress_dialog' = Append(progress_dialog, NewDialog)
              /\ ui_message' = ""
    /\ UNCHANGED <<items, file_paths, current_archive, thread_semaphore, call_queue>>
    /\ UNCHANGED treeOnly

\* on_extract_selected, main.py:273-312, for the selection sel of the tree
on_extract_selected ==
    /\ UiEnabled
    /\ current_archive # NoArchive
    /\ \E sel \in {s \in SelectionsOf(items) : Len(s) <= MaxPicked} :
          LET chosen == get_selected_files(items, file_paths, sel)
          IN  IF chosen = <<>>
              THEN /\ ui_message' = "No Selection"
                   /\ UNCHANGED <<tasks, progress_dialog>>
              ELSE /\ Len(tasks) < MaxTasks
                   /\ tasks' = Append(tasks, NewTask("extract", NoArchive,
                                                     ListTargets(chosen)))
                   /\ progress_dialog' = Append(progress_dialog, NewDialog)
                   /\ ui_message' = ""
    /\ UNCHANGED <<items, file_paths, current_archive, thread_semaphore, call_queue>>
    /\ UNCHANGED treeOnly

\* the event loop runs the oldest callback queued by wx.CallAfter
run_callback ==
    /\ call_queue # <<>>
    /\ LET cb == Head(call_queue)
       IN  /\ IF cb.fn = "populate_tree"
              THEN LET r == populate_tree(cb.files)
                   IN  items' = r.items /\ file_paths' = r.file_paths
              ELSE UNCHANGED <<items, file_paths>>
           /\ progress_dialog' =
                 IF cb.fn = "Update"
                 THEN [progress_dialog EXCEPT ![cb.task] = Update(@, 100)]
                 ELSE IF cb.fn = "Destroy"
                 THEN [progress_dialog EXCEPT ![cb.task] = Destroy(@)]
                 ELSE progress_dialog
           /\ tasks' = IF cb.fn = "MessageBox"
                       THEN [tasks EXCEPT ![cb.task].successes = @ + 1]
                       ELSE tasks
    /\ call_queue' = Tail(call_queue)
    /\ UNCHANGED <<current_archive, thread_semaphore, ui_message>>
    /\ UNCHANGED treeOnly

\* the user closes the error box a background thread is waiting in
dismiss_error(t) ==
    /\ tasks[t].pc = "msgbox"
    /\ tasks' = [tasks EXCEPT ![t].pc = IF tasks[t].kind = "list" THEN "return"
                                                                  ELSE "result"]
    /\ UNCHANGED <<items, file_paths, current_archive, thread_semaphore,
                   progress_dialog, call_queue, ui_message>>
    /\ UNCHANGED treeOnly

-----------------------------------------------------------------------------
(* Background thread of populate_file_list, main.py:184-187, with          *)
(* extract_archive_contents, main.py:191-208, inlined                      *)
(***************************************************************************)
bgUnchanged == <<items, file_paths, current_archive, progress_dialog, ui_message>>

\* with self.thread_semaphore: (entry)
list_acquire(t) ==
    /\ tasks[t].kind = "list" /\ tasks[t].pc = "start"
    /\ thread_semaphore > 0
    /\ thread_semaphore' = thread_semaphore - 1
    /\ tasks' = [tasks EXCEPT ![t].pc = "open"]
    /\ UNCHANGED <<call_queue>> /\ UNCHANGED bgUnchanged /\ UNCHANGED treeOnly

\* with SevenZipFile / ZipFile / RarFile (archive_path) as archive: the reader
\* opens the archive or raises
list_open(t) ==
    /\ tasks[t].kind = "list" /\ tasks[t].pc = "open"
    /\ HasReader(tasks[t].archive_path)
    /\ \E ok \in BOOLEAN :
          tasks' = [tasks EXCEPT
                      ![t].opens = @ + 1,
                      ![t].handle = IF ok THEN "open" ELSE @,
                      ![t].failed = ~ok,
                      ![t].pc = IF ok THEN "enum" ELSE "error"]
    /\ UNCHANGED <<thread_semaphore, call_queue>>
    /\ UNCHANGED bgUnchanged /\ UNCHANGED treeOnly

\* no branch of the if/elif chain matches: files stays []
list_no_reader(t) ==
    /\ tasks[t].kind = "list" /\ tasks[t].pc = "open"
    /\ ~HasReader(tasks[t].archive_path)
    /\ tasks' = [tasks EXCEPT ![t].pc = "return"]
    /\ UNCHANGED <<thread_semaphore, call_queue>>
    /\ UNCHANGED bgUnchanged /\ UNCHANGED treeOnly

\* the enumeration without the with block: an exception leaves the loop with
\* the handle still open
list_enumerate_leaking(t) ==
    /\ tasks[t].kind = "list" /\ tasks[t].pc = "enum"
    /\ LET entries == Contents(tasks[t].archive_path)
       IN  \E n \in 0..Len(entries) :
              tasks' = [tasks EXCEPT
                          ![t].files = SubSeq(entries, 1, n),
                          ![t].idx = n + 1,
                          ![t].failed = n < Len(entries),
                          ![t].handle = IF n < Len(entries) THEN "open" ELSE "closed",
                          ![t].pc = IF n < Len(entries) THEN "error" ELSE "return"]
    /\ UNCHANGED <<thread_semaphore, call_queue>>
    /\ UNCHANGED bgUnchanged /\ UNCHANGED treeOnly

\* "for info in archive.list(): files.append(...)": n rounds append their
\* entry; then the loop ends or, with entries left, the next round raises.
\* Leaving the with block closes the handle either way.
list_enumerate(t) ==
    /\ tasks[t].kind = "list" /\ tasks[t].pc = "enum"
    /\ LET entries == Contents(tasks[t].archive_path)
       IN  \E n \in 0..Len(entries) :
              tasks' = [tasks EXCEPT
                          ![t].files = SubSeq(entries, 1, n),
                          ![t].idx = n + 1,
                          ![t].failed = n < Len(entries),
                          ![t].handle = "closed",
                          ![t].pc = IF n < Len(entries) THEN "error" ELSE "return"]
    /\ UNCHANGED <<thread_semaphore, call_queue>>
    /\ UNCHANGED bgUnchanged /\ UNCHANGED treeOnly

\* except Exception: wx.MessageBox("Error extracting archive ..."), main.py:207;
\* the thread waits in the box until it is closed
list_report_error(t) ==
    /\ tasks[t].kind = "list" /\ tasks[t].pc = "error"
    /\ tasks' = [tasks EXCEPT ![t].errors = @ + 1, ![t].pc = "msgbox"]
    /\ UNCHANGED <<thread_semaphore, call_queue>>
    /\ UNCHANGED bgUnchanged /\ UNCHANGED treeOnly

\* the same step with populate_tree called by the listing thread itself
\* rather than queued for the UI thread
list_call_after_direct(t) ==
    /\ tasks[t].kind = "list" /\ tasks[t].pc = "return"
    /\ LET r == populate_tree(tasks[t].files)
       IN  items' = r.items /\ file_paths' = r.file_paths
    /\ tasks' = [tasks EXCEPT ![t].pc = "release"]
    /\ UNCHANGED <<current_archive, thread_semaphore, progress_dialog, call_queue,
                   ui_message>>
    /\ UNCHANGED treeOnly

\* return files; wx.CallAfter(self.file_tree.populate_tree, files)
list_call_after(t) ==
    /\ tasks[t].kind = "list" /\ tasks[t].pc = "return"
    /\ call_queue' = Append(call_queue, Callback("populate_tree", t, tasks[t].files))
    /\ tasks' = [tasks EXCEPT ![t].pc = "release"]
    /\ UNCHANGED <<thread_semaphore>> /\ UNCHANGED bgUnchanged /\ UNCHANGED treeOnly

\* with self.thread_semaphore: (exit); the thread ends and its locals with it
list_release(t) ==
    /\ tasks[t].kind = "list" /\ tasks[t].pc = "release"
    /\ thread_semaphore' = thread_semaphore + 1
    /\ tasks' = [tasks EXCEPT ![t].pc = "done", ![t].files = <<>>, ![t].idx = 1]
    /\ UNCHANGED <<call_queue>> /\ UNCHANGED bgUnchanged /\ UNCHANGED treeOnly

-----------------------------------------------------------------------------
(* Background thread extract_task, main.py:254-269 and :295-310, with      *)
(* extract_files, main.py:210-235, inlined.  The thread takes no           *)
(* semaphore.  The outer except of extract_task is not modelled: nothing   *)
(* in its try block raises, extract_files catching every Exception.        *)
(***************************************************************************)

\* self.current_archive is read and the reader opens it or raises
extract_open(t) ==
    /\ tasks[t].kind = "extract" /\ tasks[t].pc = "start"
    /\ HasReader(current_archive)
    /\ \E ok \in BOOLEAN :
          tasks' = [tasks EXCEPT
                      ![t].archive_path = current_archive,
                      ![t].opens = @ + 1,
                      ![t].handle = IF ok THEN "open" ELSE @,
                      ![t].failed = ~ok,
                      ![t].pc = IF ok THEN "extract" ELSE "error"]
    /\ UNCHANGED <<thread_semaphore, call_queue>>
    /\ UNCHANGED bgUnchanged /\ UNCHANGED treeOnly

\* no branch of the if/elif chain matches: return True
extract_no_reader(t) ==
    /\ tasks[t].kind = "extract" /\ tasks[t].pc = "start"
    /\ ~HasReader(current_archive)
    /\ tasks' = [tasks EXCEPT ![t].archive_path = current_archive,
                              ![t].success = TRUE,
                              ![t].pc = "result"]
    /\ UNCHANGED <<thread_semaphore, call_queue>>
    /\ UNCHANGED bgUnchanged /\ UNCHANGED treeOnly

\* what follows the reader calls inside the with block: the handle is closed,
\* and after an exception the except clause is entered
AfterCalls(task, ok) ==
    [task EXCEPT !.failed = ~ok,
                 !.handle = "closed",
                 !.success = ok,
                 !.pc = IF ok THEN "result" ELSE "error"]

\* if files_to_extract: the targets are extracted (7z: one call for the list;
\* zip, rar: one call per file, n of them returning before one raises)
\* else: archive.extractall(extract_path)
extract_step(t) ==
    /\ tasks[t].kind = "extract" /\ tasks[t].pc = "extract"
    /\ LET task == tasks[t]
           targets == task.files_to_extract
       IN  IF Truthy(targets)
           THEN IF EndsWith(task.archive_path, Ext7z)
                THEN \E ok \in BOOLEAN :
                        tasks' = [tasks EXCEPT ![t] =
                           AfterCalls([task EXCEPT !.extracted = Range(targets.paths)],
                                      ok)]
                ELSE \E n \in 0..Len(targets.paths) :
                        \* n calls return; call n + 1, if there is one, raises
                        LET calls == IF n < Len(targets.paths) THEN n + 1 ELSE n
                        IN  tasks' = [tasks EXCEPT ![t] =
                               AfterCalls([task EXCEPT
                                   !.extracted = Range(SubSeq(targets.paths, 1, calls)),
                                   !.idx = calls + 1],
                                 n = Len(targets.paths))]
           ELSE \E ok \in BOOLEAN :
                   tasks' = [tasks EXCEPT ![t] =
                      AfterCalls([task EXCEPT !.extract_all = TRUE], ok)]
    /\ UNCHANGED <<thread_semaphore, call_queue>>
    /\ UNCHANGED bgUnchanged /\ UNCHANGED treeOnly

\* except Exception: wx.MessageBox("Error during extraction ..."); return False,
\* main.py:233-235
extract_report_error(t) ==
    /\ tasks[t].kind = "extract" /\ tasks[t].pc = "error"
    /\ tasks' = [tasks EXCEPT ![t].errors = @ + 1, ![t].pc = "msgbox"]
    /\ UNCHANGED <<thread_semaphore, call_queue>>
    /\ UNCHANGED bgUnchanged /\ UNCHANGED treeOnly

\* wx.CallAfter(progress_dialog.Update, 100)
extract_call_after_update(t) ==
    /\ tasks[t].kind = "extract" /\ tasks[t].pc = "result"
    /\ call_queue' = Append(call_queue, Callback("Update", t, <<>>))
    /\ tasks' = [tasks EXCEPT ![t].pc = "result2"]
    /\ UNCHANGED <<thread_semaphore>> /\ UNCHANGED bgUnchanged /\ UNCHANGED treeOnly

\* the same step with the test of success left out: the success box is queued
\* whatever extract_files returned
extract_call_after_destroy_ignoring_success(t) ==
    /\ tasks[t].kind = "extract" /\ tasks[t].pc = "result2"
    /\ call_queue' = Append(call_queue, Callback("Destroy", t, <<>>))
    /\ tasks' = [tasks EXCEPT ![t].pc = "result3"]
    /\ UNCHANGED <<thread_semaphore>> /\ UNCHANGED bgUnchanged /\ UNCHANGED treeOnly

\* wx.CallAfter(progress_dialog.Destroy)
extract_call_after_destroy(t) ==
    /\ tasks[t].kind = "extract" /\ tasks[t].pc = "result2"
    /\ call_queue' = Append(call_queue, Callback("Destroy", t, <<>>))
    /\ tasks' = [tasks EXCEPT ![t].pc = IF tasks[t].success THEN "result3" ELSE "done"]
    /\ UNCHANGED <<thread_semaphore>> /\ UNCHANGED bgUnchanged /\ UNCHANGED treeOnly

\* if success: wx.CallAfter(wx.MessageBox, "... successfully ...")
extract_call_after_success(t) ==
    /\ tasks[t].kind = "extract" /\ tasks[t].pc = "result3"
    /\ call_queue' = Append(call_queue, Callback("MessageBox", t, <<>>))
    /\ tasks' = [tasks EXCEPT ![t].pc = "done"]
    /\ UNCHANGED <<thread_semaphore>> /\ UNCHANGED bgUnchanged /\ UNCHANGED treeOnly

-----------------------------------------------------------------------------
Next ==
    \/ load_archive
    \/ extract_no_archive
    \/ on_extract_archive
    \/ on_extract_selected
    \/ run_callback
    \/ \E t \in TaskIds : dismiss_error(t)
    \/ \E t \in TaskIds : list_acquire(t)
    \/ \E t \in TaskIds : list_open(t)
    \/ \E t \in TaskIds : list_no_reader(t)
    \/ \E t \in TaskIds : list_enumerate(t)
    \/ \E t \in TaskIds : list_report_error(t)
    \/ \E t \in TaskIds : list_call_after(t)
    \/ \E t \in TaskIds : list_release(t)
    \/ \E t \in TaskIds : extract_open(t)
    \/ \E t \in TaskIds : extract_no_reader(t)
    \/ \E t \in TaskIds : extract_step(t)
    \/ \E t \in TaskIds : extract_report_error(t)
    \/ \E t \in TaskIds : extract_call_after_update(t)
    \/ \E t \in TaskIds : extract_call_after_destroy(t)
    \/ \E t \in TaskIds : extract_call_after_success(t)

Spec == Init /\ [][Next]_vars

-----------------------------------------------------------------------------
(* extract_files on its own: one extraction thread, started on any archive  *)
(* with any files_to_extract, runs to its end                               *)
(***************************************************************************)
TargetLists == {NoneTargets} \cup {ListTargets(l) : l \in SeqsUpTo(PathPool, MaxTargets)}

InitExtract ==
    /\ files_arg = <<>>
    /\ pcT = "app"
    /\ selections = <<>>
    /\ selected_files = <<>>
    /\ current_archive \in Archives
    /\ LET r == populate_tree(Contents(current_archive))
       IN  items = r.items /\ file_paths = r.file_paths
    /\ thread_semaphore = SemaphoreSlots
    /\ \E targets \in TargetLists : tasks = <<NewTask("extract", NoArchive, targets)>>
    /\ progress_dialog = <<NewDialog>>
    /\ call_queue = <<>>
    /\ ui_message = ""

NextExtract ==
    \/ run_callback
    \/ \E t \in TaskIds : dismiss_error(t)
    \/ \E t \in TaskIds : extract_open(t)
    \/ \E t \in TaskIds : extract_no_reader(t)
    \/ \E t \in TaskIds : extract_step(t)
    \/ \E t \in TaskIds : extract_report_error(t)
    \/ \E t \in TaskIds : extract_call_after_update(t)
    \/ \E t \in TaskIds : extract_call_after_destroy(t)
    \/ \E t \in TaskIds : extract_call_after_success(t)

SpecExtract == InitExtract /\ [][NextExtract]_vars

-----------------------------------------------------------------------------
(* What the tree holds, read back from the items *)

IsFile(its, i) == i \in 1..Len(its) /\ its[i].data.type = "file"
IsFolder(its, i) == i = Root \/ (i \in 1..Len(its) /\ its[i].data.type = "folder")

\* the segment names from the root down to the item
RECURSIVE PathTo(_, _)
PathTo(its, i) ==
    IF i = Root THEN <<>> ELSE Append(PathTo(its, its[i].parent), its[i].text)

RECURSIVE AncestorsAreFolders(_, _)
AncestorsAreFolders(its, i) ==
    \/ i = Root
    \/ /\ IsFolder(its, its[i].parent)
       /\ AncestorsAreFolders(its, its[i].parent)

IsPrefix(s, t) == Len(s) <= Len(t) /\ SubSeq(t, 1, Len(s)) = s

EntryPaths(files) == {files[k][1] : k \in 1..Len(files)}

\* the entries of files whose path lies below the folder path, in entry order
RECURSIVE PathsBeneath(_, _)
PathsBeneath(files, folderPath) ==
    IF files = <<>> THEN <<>>
    ELSE LET rest == PathsBeneath(Tail(files), folderPath)
             parts == Parts(Head(files)[1])
         IN  IF Len(parts) > Len(folderPath) /\ IsPrefix(folderPath, parts)
             THEN <<Head(files)[1]>> \o rest
             ELSE rest

\* the last entry of files with this path
LastEntryOf(files, p) ==
    files[CHOOSE k \in 1..Len(files) :
            /\ files[k][1] = p
            /\ \A m \in (k + 1)..Len(files) : files[m][1] # p]

FileNodesOf(its, fp, p) == {f \in DOMAIN fp : IsFile(its, f) /\ fp[f] = p}

-----------------------------------------------------------------------------
(* Claims about the tree, checked under SpecTree *)

\* C1: after populate_tree every entry has a File node that is reached from
\* the root through Folder nodes named by the entry's path segments, carries
\* the entry's size and date, and maps back to the entry's full path.
C1_EveryEntryReachable ==
    pcT # "init" =>
        \A k \in 1..Len(files_arg) :
            \E f \in DOMAIN file_paths :
                /\ IsFile(items, f)
                /\ file_paths[f] = files_arg[k][1]
                /\ PathTo(items, f) = Parts(files_arg[k][1])
                /\ AncestorsAreFolders(items, f)
                /\ items[f].data = FileData(files_arg[k][2], files_arg[k][3])

\* C2: selecting one Folder node resolves to exactly the paths of the entries
\* beneath that folder's path, and for entries [a/b/c, a/d, e] selecting
\* folder a resolves to [a/b/c, a/d] in that order.
ScenarioPaths == <<P_abc, P_ad, P_e>>

C2_FolderSelectionResolves ==
    (pcT = "resolved" /\ Len(selections) = 1
        /\ selections[1] # Root /\ IsFolder(items, selections[1])) =>
        LET under == PathsBeneath(files_arg, PathTo(items, selections[1]))
        IN  /\ Range(selected_files) = Range(under)
            /\ Len(selected_files) = Len(under)
            /\ ([k \in 1..Len(files_arg) |-> files_arg[k][1]] = ScenarioPaths
                  /\ PathTo(items, selections[1]) = <<P_a>>)
               => selected_files = <<P_abc, P_ad>>

\* C3: every path of the entry list, also one listed more than once, has
\* exactly one File node, which carries the attributes of the last entry
\* with that path.
C3_OneFileNodePerPath ==
    pcT # "init" =>
        \A p \in EntryPaths(files_arg) :
            /\ Cardinality(FileNodesOf(items, file_paths, p)) = 1
            /\ \A f \in FileNodesOf(items, file_paths, p) :
                  items[f].data = FileData(LastEntryOf(files_arg, p)[2],
                                           LastEntryOf(files_arg, p)[3])

\* C4: get_selected_files returns no path twice; a folder selected together
\* with a file inside it resolves to the same paths as the folder alone.
C4_NoDuplicatePaths ==
    pcT = "resolved" =>
        /\ NoRepeat(selected_files)
        /\ (Len(selections) = 2 /\ IsFolder(items, selections[1])
              /\ IsFile(items, selections[2])
              /\ items[selections[2]].parent = selections[1]) =>
             selected_files = get_selected_files(items, file_paths, <<selections[1]>>)

\* C5: selecting the root resolves to every File path of the tree, each
\* exactly once, at whatever depth the File node lies.
C5_RootResolvesAll ==
    (pcT = "resolved" /\ selections = <<Root>>) =>
        /\ Range(selected_files) = {file_paths[f] : f \in DOMAIN file_paths}
        /\ NoRepeat(selected_files)

-----------------------------------------------------------------------------
(* Claims about the background tasks, checked under Spec and SpecExtract *)

PendingFor(t) == {k \in 1..Len(call_queue) : call_queue[k].task = t}
ListTasks == {t \in TaskIds : tasks[t].kind = "list"}
ExtractTasks == {t \in TaskIds : tasks[t].kind = "extract"}
\* the command of task t is over: the thread has ended and the UI thread has
\* run every callback the thread queued
Ended(t) == tasks[t].pc = "done" /\ PendingFor(t) = {}

\* C6: at most 2 background tasks are inside an Archive Reader operation at
\* the same time.
C6_AtMostTwoInReader ==
    Cardinality({t \in TaskIds : InReader(t)}) <= SemaphoreSlots

\* C7: a listing whose reader failed, at open or part-way through the
\* enumeration, reports an error and hands an empty list to populate_tree.
C7_FailedListingIsEmpty ==
    /\ \A t \in ListTasks :
          (tasks[t].failed /\ tasks[t].pc \in {"return", "release"}) =>
              tasks[t].errors = 1 /\ tasks[t].files = <<>>
    /\ \A k \in 1..Len(call_queue) :
          (call_queue[k].fn = "populate_tree" /\ tasks[call_queue[k].task].failed) =>
              call_queue[k].files = <<>>

\* C8: once extract_files has called the reader, it asked for every entry
\* exactly when files_to_extract is None, and for any list, also the empty
\* one, it asked for entries of the list only.
C8_ExtractAllIffNone ==
    \A t \in ExtractTasks :
        (tasks[t].handle = "closed") =>
            /\ tasks[t].extract_all <=> tasks[t].files_to_extract.none
            /\ ~tasks[t].files_to_extract.none =>
                  tasks[t].extracted \subseteq Range(tasks[t].files_to_extract.paths)

\* C9: an extraction command opens the reader at most once and never reports
\* both a failure and a success; once it is over, a reader failure has been
\* reported exactly once with no success message, a reader success has been
\* reported by exactly one success message, and the progress dialog has
\* reached 100 and is destroyed.
C9_OneOutcomePerExtraction ==
    \A t \in ExtractTasks :
        /\ tasks[t].opens <= 1
        /\ tasks[t].errors + tasks[t].successes <= 1
        /\ tasks[t].failed => tasks[t].successes = 0
        /\ Ended(t) =>
              /\ tasks[t].failed => tasks[t].errors = 1
              /\ (tasks[t].opens = 1 /\ ~tasks[t].failed) =>
                    tasks[t].successes = 1 /\ tasks[t].errors = 0
              /\ progress_dialog[t] = [state |-> "destroyed", value |-> 100]

\* the claim's case both ways: a failed and a successful extraction are over
C9_Witness ==
    /\ \E t \in ExtractTasks : Ended(t) /\ tasks[t].failed /\ tasks[t].errors = 1
    /\ \E t \in ExtractTasks : Ended(t) /\ tasks[t].opens = 1 /\ tasks[t].successes = 1

\* C10: once every listing task is over (none of them failed), the tree shown
\* is the one built from the entries of the current archive, whichever task
\* finished last.
C10_TreeIsOfCurrentArchive ==
    (/\ ListTasks # {}
     /\ \A t \in ListTasks : Ended(t) /\ ~tasks[t].failed) =>
        LET r == populate_tree(Contents(current_archive))
        IN  items = r.items /\ file_paths = r.file_paths

-----------------------------------------------------------------------------
(* Claims about the threads and the shared state, checked under Spec *)

\* some background thread moved in this step
ThreadStepped == \E t \in TaskIds : tasks'[t].pc # tasks[t].pc

\* C11: only the UI thread writes the tree (items, file_paths) and
\* current_archive: no step of a background thread changes them, the tree
\* changes only when the event loop runs a queued populate_tree callback, and
\* current_archive only when load_archive starts a listing.
C11_OnlyUiThreadMutates ==
    [][/\ (items' # items \/ file_paths' # file_paths) =>
            /\ ~ThreadStepped
            /\ call_queue # <<>>
            /\ Head(call_queue).fn = "populate_tree"
            /\ call_queue' = Tail(call_queue)
       /\ current_archive' # current_archive =>
            /\ ~ThreadStepped
            /\ Len(tasks') = Len(tasks) + 1
            /\ tasks'[Len(tasks')].kind = "list"]_vars

\* a listing thread has ended, its result was handed over and built the tree
C11_Witness ==
    /\ items # <<>>
    /\ current_archive # NoArchive
    /\ \E t \in ListTasks : Ended(t) /\ ~tasks[t].failed

\* C12: every failure is surfaced, an archive of an unsupported format
\* included: a listing of it has reported an error by the time it returns its
\* (empty) list, and an extraction from it is reported as failed, never as a
\* success.
C12_UnsupportedFormatSurfaced ==
    /\ \A t \in ListTasks :
          (/\ ~HasReader(tasks[t].archive_path)
           /\ tasks[t].pc \in {"return", "release", "done"}) =>
              tasks[t].errors = 1
    /\ \A t \in ExtractTasks :
          (tasks[t].pc # "start" /\ ~HasReader(tasks[t].archive_path)) =>
              /\ ~tasks[t].success
              /\ tasks[t].successes = 0
              /\ Ended(t) => tasks[t].errors = 1

\* C13: with nothing selected get_selected_files returns the empty list,
\* whatever the tree holds; no extract-selected task is ever started with an
\* empty list of targets; and the step that shows "No Selection" starts no
\* task, queues nothing and moves no thread, so the reader is not called.
C13_EmptySelectionRejected ==
    /\ [](get_selected_files(items, file_paths, <<>>) = <<>>)
    /\ [][Len(tasks') > Len(tasks) =>
             LET new == tasks'[Len(tasks')]
             IN  (new.kind = "extract" /\ ~new.files_to_extract.none) =>
                     new.files_to_extract.paths # <<>>]_vars
    /\ [][(ui_message' = "No Selection" /\ ui_message # "No Selection") =>
             /\ tasks' = tasks
             /\ progress_dialog' = progress_dialog
             /\ call_queue' = call_queue
             /\ thread_semaphore' = thread_semaphore]_vars

\* Extract Selected was pressed on a built tree with nothing resolved from the
\* selection, and was rejected
C13_Witness ==
    /\ ui_message = "No Selection"
    /\ current_archive # NoArchive
    /\ items # <<>>
    /\ ExtractTasks = {}

-----------------------------------------------------------------------------
(* The listing threads and the gate on their own, with the scheduling the    *)
(* program has: every thread that can take its next step takes it (the      *)
(* reader's calls return or raise), and the event loop runs what wx.CallAfter*)
(* queued.  Nothing makes the user close an error box.                      *)
(***************************************************************************)
ThreadStep(t) ==
    /\ t \in TaskIds
    /\ \/ list_acquire(t)
       \/ list_open(t)
       \/ list_no_reader(t)
       \/ list_enumerate(t)
       \/ list_report_error(t)
       \/ list_call_after(t)
       \/ list_release(t)

NextGate ==
    \/ load_archive
    \/ run_callback
    \/ \E t \in TaskIds : dismiss_error(t)
    \/ \E t \in 1..MaxTasks : ThreadStep(t)

SpecGate ==
    /\ Init
    /\ [][NextGate]_vars
    /\ WF_vars(run_callback)
    /\ \A t \in 1..MaxTasks : WF_vars(ThreadStep(t))

\* the listing tasks holding a slot of the gate
Holders == {t \in ListTasks :
               tasks[t].pc \in {"open", "enum", "error", "msgbox", "return", "release"}}

\* C14: the gate is released on every exit path of a listing task, so the
\* free slots are 2 less the tasks inside the gated region and return to 2
\* when all tasks are over; and a listing request waiting for the gate is
\* eventually admitted, every reader operation of the admitted tasks
\* returning.
C14_GateReleasedAndAdmits ==
    /\ [](thread_semaphore = SemaphoreSlots - Cardinality(Holders))
    /\ []((\A t \in TaskIds : tasks[t].pc = "done") => thread_semaphore = SemaphoreSlots)
    /\ \A t \in 1..MaxTasks :
          (t \in TaskIds /\ tasks[t].pc = "start") ~>
              (t \in TaskIds /\ tasks[t].pc # "start")

-----------------------------------------------------------------------------
(* Claims about the folders of the tree, checked under SpecTree *)

\* the distinct folder prefixes of the entry paths, as segment sequences
FolderPrefixes(files) ==
    UNION {{SubSeq(Parts(p), 1, k) : k \in 1..(Len(Parts(p)) - 1)} :
              p \in EntryPaths(files)}

FolderNodesAt(its, prefix) ==
    {n \in 1..Len(its) : its[n].data = FolderData /\ PathTo(its, n) = prefix}

\* C15: after one populate_tree call every distinct folder prefix of the
\* entry paths has exactly one Folder node, in whatever order the entries
\* come, and that node hangs below the Folder nodes of its parent prefixes;
\* there is no other Folder node.
C15_OneFolderPerPrefix ==
    pcT # "init" =>
        /\ \A prefix \in FolderPrefixes(files_arg) :
              /\ Cardinality(FolderNodesAt(items, prefix)) = 1
              /\ \A n \in FolderNodesAt(items, prefix) : AncestorsAreFolders(items, n)
        /\ \A n \in 1..Len(items) :
              items[n].data = FolderData => PathTo(items, n) \in FolderPrefixes(files_arg)

\* C16: after populate_tree the children of any one node, the root included,
\* have pairwise distinct names, for every entry list: also when a name is
\* both a file and a folder prefix, or a path is listed twice.
C16_SiblingNamesDistinct ==
    pcT # "init" =>
        \A i, j \in 1..Len(items) :
            (i # j /\ items[i].parent = items[j].parent) =>
                items[i].text # items[j].text

-----------------------------------------------------------------------------
(* Claims about the tasks and the session, checked under Spec *)

\* C17: whenever an extract-selected task has called the reader, the paths
\* it asks for were resolved from a tree of the archive the reader opened:
\* they are paths of entries of that archive, in every interleaving of the
\* commands, the threads and the queued callbacks.
C17_TargetsOfOpenedArchive ==
    \A t \in ExtractTasks :
        (tasks[t].opens = 1 /\ ~tasks[t].files_to_extract.none) =>
            Range(tasks[t].files_to_extract.paths) \subseteq
                EntryPaths(Contents(tasks[t].archive_path))

\* the positions of a thread after it has left the with block of the reader
AfterReader ==
    {"error", "msgbox", "return", "release", "done", "result", "result2", "result3"}

\* C18: in every background task the reader's steps come in the order open,
\* enumerate or extract, close: the handle only goes none -> open -> closed,
\* entries are listed or extracted only through an opened handle, the handle
\* is closed on every way out of the reader (also after an exception), and a
\* listing result is queued for the UI thread only with the handle closed or
\* never opened.
C18_ReaderStepsOrdered ==
    /\ [](\A t \in TaskIds :
            /\ tasks[t].handle = "open" => tasks[t].pc \in {"enum", "extract"}
            /\ tasks[t].handle # "none" => tasks[t].opens = 1
            /\ tasks[t].pc \in AfterReader => tasks[t].handle # "open"
            /\ (tasks[t].files # <<>> \/ tasks[t].extracted # {} \/ tasks[t].extract_all)
                  => tasks[t].handle = "closed"
            /\ \A k \in PendingFor(t) : tasks[t].handle # "open")
    /\ [][\A t \in TaskIds :
            tasks'[t].handle # tasks[t].handle =>
                <<tasks[t].handle, tasks'[t].handle>> \in
                    {<<"none", "open">>, <<"open", "closed">>}]_vars

\* one listing failed part-way through the enumeration and one went through;
\* both handles are closed and the failed one's result is queued
C18_Witness ==
    /\ \E t \in ListTasks :
          /\ tasks[t].failed /\ tasks[t].handle = "closed"
          /\ PendingFor(t) # {}
    /\ \E t \in ListTasks : ~tasks[t].failed /\ tasks[t].handle = "closed"
    /\ \E t \in ExtractTasks : tasks[t].failed /\ tasks[t].handle = "closed"

-----------------------------------------------------------------------------
(* populate_tree called again on a TreeFileList already built, with any     *)
(* entry list.  A third call would start from a tree that a first call also *)
(* builds, so two calls in a row cover every pair of old tree and new list. *)
(***************************************************************************)
TreeRepopulate ==
    /\ pcT = "built"
    /\ \E files \in EntryLists :
          /\ files_arg' = files
          /\ LET r == populate_tree(files)
             IN  /\ items' = r.items
                 /\ file_paths' = r.file_paths
    /\ pcT' = "rebuilt"
    /\ UNCHANGED <<selections, selected_files>>
    /\ UNCHANGED appOnly

NextRebuild == TreePopulate \/ TreeRepopulate

SpecRebuild == InitTree /\ [][NextRebuild]_vars

FileIds(its) == {n \in 1..Len(its) : its[n].data.type = "file"}
FolderIds(its) == {n \in 1..Len(its) : its[n].data = FolderData}

\* C19: after every populate_tree call the tree is the one of this call's
\* entry list alone: the keys of file_paths are exactly the File nodes of the
\* tree; the k-th File node is named, attributed and mapped as the k-th entry
\* says; every Folder node is named by a folder prefix of the list and there
\* are no more of them than prefixes; nothing of an earlier tree is left.
C19_TreeWhollyRebuilt ==
    pcT # "init" =>
        /\ DOMAIN file_paths = FileIds(items)
        /\ \A f \in FileIds(items) :
              LET k == Cardinality({g \in FileIds(items) : g <= f})
              IN  /\ k <= Len(files_arg)
                  /\ file_paths[f] = files_arg[k][1]
                  /\ LET parts == Parts(files_arg[k][1])
                     IN  items[f].text = parts[Len(parts)]
                  /\ items[f].data = FileData(files_arg[k][2], files_arg[k][3])
        /\ \A n \in FolderIds(items) :
              \E prefix \in FolderPrefixes(files_arg) : items[n].text = prefix[Len(prefix)]
        /\ Cardinality(FolderIds(items)) <= Cardinality(FolderPrefixes(files_arg))

\* a tree with files and a folder was built over an earlier tree
C19_Witness ==
    /\ pcT = "rebuilt"
    /\ Len(files_arg) = 1
    /\ Cardinality(FileIds(items)) = 1
    /\ Cardinality(FolderIds(items)) = 1

====
